---- MODULE Spec2Model ----
(***************************************************************************)
(* A model of the console file manager: the directory lister                *)
(* (navigation.list_directory), the tree aggregator (analysis.py) and the   *)
(* search engine (search.py), run over a small file system that the          *)
(* environment builds entry by entry.                                        *)
(*                                                                           *)
(* Strings are sequences of one-character strings, so that lower-casing,    *)
(* extension splitting, the forbidden-character test and the path length    *)
(* are computed and not assumed.  A path is the sequence of its components: *)
(* a root token followed by entry names; PathStr gives its characters.      *)
(***************************************************************************)
EXTENDS Integers, Sequences, FiniteSets, TLC

\* ---------------------------------------------------------------- bounds
MaxEntries == 2      \* entries the environment creates in the whole tree
MaxDepth == 4        \* nested calls the interpreter allows before RecursionError
MaxList == 11        \* files of the flat listing drawn for the top-N report

\* ----------------------------------------------------- program constants
MAX_PATH == 260      \* search.is_path_too_long
TOP_N == 10          \* analysis.show_windows_directory_stats: files[:10]
MB == 1024 * 1024    \* search.find_large_files_windows: min_size_mb * 1024 * 1024

\* ------------------------------------------------------------ characters
UPPER == <<"A","B","C","D","E","F","G","H","I","J","K","L","M",
           "N","O","P","Q","R","S","T","U","V","W","X","Y","Z">>
LOWER == <<"a","b","c","d","e","f","g","h","i","j","k","l","m",
           "n","o","p","q","r","s","t","u","v","w","x","y","z">>

\* str.lower() on one character
LowerChar(c) ==
    IF \E i \in 1..26 : UPPER[i] = c
    THEN LOWER[CHOOSE i \in 1..26 : UPPER[i] = c]
    ELSE c

\* str.lower()
Lower(s) == [i \in 1..Len(s) |-> LowerChar(s[i])]

\* str.startswith / str.endswith
StartsWith(s, t) == Len(t) <= Len(s) /\ SubSeq(s, 1, Len(t)) = t
EndsWith(s, t) == Len(t) <= Len(s) /\ SubSeq(s, Len(s) - Len(t) + 1, Len(s)) = t

Range(s) == {s[i] : i \in 1..Len(s)}

\* os.path.splitext(name)[1] for a name without separators: the text from the
\* last dot on, unless only dots precede that dot (leading dots are no extension)
SplitExt(name) ==
    LET dots == {i \in 1..Len(name) : name[i] = "."}
        last == IF dots = {} THEN 0 ELSE CHOOSE i \in dots : \A j \in dots : j <= i
    IN  IF last > 0 /\ \E j \in 1..(last - 1) : name[j] # "."
        THEN SubSeq(name, last, Len(name))
        ELSE <<>>

\* ----------------------------------------------------------------- names
N_a_txt == <<"a", ".", "t", "x", "t">>
N_RE_TXT == <<"R", "E", ".", "T", "X", "T">>
N_mk == <<"m", "k">>
N_bad == <<"c", "<", ".", "t", "x", "t">>
N_sys == <<"p", ".", "s", "y", "s">>
N_dot == <<".", "h">>
N_Desktop == <<"D", "e", "s", "k", "t", "o", "p">>
N_Documents == <<"D", "o", "c", "u", "m", "e", "n", "t", "s">>
N_Downloads == <<"D", "o", "w", "n", "l", "o", "a", "d", "s">>
N_badDir == <<"d", "<">>
N_lnk == <<"l", "n", "k">>
N_dead == <<"d", "e", "a", "d">>

NOEXT == <<".", "n", "o", "e", "x", "t">>
EXT_txt == <<".", "t", "x", "t">>
EXT_sys == <<".", "s", "y", "s">>
EXT_exe == <<".", "e", "x", "e">>
EXT_dll == <<".", "d", "l", "l">>

\* The files the environment can create: name, size in bytes, hidden
\* attribute, and whether the user lacks write permission on it.
FileKinds ==
    { [name |-> N_a_txt,  size |-> MB,     hidden |-> FALSE, ro |-> FALSE],
      [name |-> N_RE_TXT, size |-> MB - 1, hidden |-> FALSE, ro |-> TRUE],
      [name |-> N_mk,     size |-> 2 * MB, hidden |-> TRUE,  ro |-> FALSE],
      [name |-> N_bad,    size |-> MB,     hidden |-> FALSE, ro |-> FALSE],
      [name |-> N_sys,    size |-> MB,     hidden |-> FALSE, ro |-> TRUE],
      [name |-> N_dot,    size |-> 1,      hidden |-> TRUE,  ro |-> FALSE] }

\* The folders the environment can create: name and hidden attribute.
FolderKinds ==
    { [name |-> N_Desktop, hidden |-> FALSE],
      [name |-> N_Desktop, hidden |-> TRUE],
      [name |-> N_badDir,  hidden |-> FALSE] }

\* ----------------------------------------------------------------- paths
\* The tree's root directory sits at a deep absolute path of MAX_PATH - 14
\* characters, "C:\www...w". A caller names it with or without the
\* extended-length prefix "\\?\".
SEP == "\\"
EXT_PREFIX == <<"\\", "\\", "?", "\\">>
RootChars == <<"C", ":", "\\">> \o [i \in 1..(MAX_PATH - 17) |-> "w"]

RECURSIVE JoinNames(_, _)
JoinNames(str, names) ==
    IF names = <<>> THEN str
    ELSE JoinNames(str \o <<SEP>> \o Head(names), Tail(names))

\* the characters of a path (os.path.join of its components)
PathStr(p) ==
    JoinNames(IF p[1] = "XROOT" THEN EXT_PREFIX \o RootChars ELSE RootChars, Tail(p))

\* os.path.join(path, name)
Join(p, name) == Append(p, name)

\* os.path.basename(path) of a path below the root
Basename(p) == p[Len(p)]

\* ----------------------------------------------------------- file system
VARIABLES
    fs,      \* the directories: fs[d] = [readable, entries], fs[1] the root
    res,     \* the last top-level call: [op, path, arg, out]
    wfn,     \* the aggregator function whose walk is in progress, or "idle"
    stack    \* the walk's call stack, innermost call last

vars == <<fs, res, wfn, stack>>

Dirs(f) == 1..Len(f)

NEntries(f) ==
    LET RECURSIVE Sum(_)
        Sum(d) == IF d = 0 THEN 0 ELSE Len(f[d].entries) + Sum(d - 1)
    IN  Sum(Len(f))

NamesIn(f, d) == {f[d].entries[i].name : i \in 1..Len(f[d].entries)}

\* the entry called name in directory d
EntryOf(f, d, name) ==
    f[d].entries[CHOOSE i \in 1..Len(f[d].entries) : f[d].entries[i].name = name]

\* The object a path names, following links as the operating system does:
\* [kind |-> "dir", dir |-> d], [kind |-> "file", entry |-> e] or
\* [kind |-> "none"] (nothing there, or a link whose target is gone).
RECURSIVE ResolveFrom(_, _, _)
ResolveFrom(f, d, names) ==
    IF names = <<>> THEN [kind |-> "dir", dir |-> d]
    ELSE IF Head(names) \notin NamesIn(f, d) THEN [kind |-> "none"]
    ELSE LET e == EntryOf(f, d, Head(names))
         IN  CASE e.kind \in {"folder", "link"} -> ResolveFrom(f, e.to, Tail(names))
               [] e.kind = "file" ->
                    IF Tail(names) = <<>> THEN [kind |-> "file", entry |-> e]
                    ELSE [kind |-> "none"]
               [] OTHER -> [kind |-> "none"]

Resolve(f, p) == ResolveFrom(f, 1, Tail(p))

\* os.path.islink(path): the entry itself is a symbolic link or junction
IsLink(f, p) ==
    /\ Len(p) > 1
    /\ LET parent == Resolve(f, SubSeq(p, 1, Len(p) - 1))
       IN  /\ parent.kind = "dir"
           /\ Basename(p) \in NamesIn(f, parent.dir)
           /\ EntryOf(f, parent.dir, Basename(p)).kind \in {"link", "dead"}

\* os.path.exists / os.path.isdir
Exists(f, p) == Resolve(f, p).kind # "none"
IsDir(f, p) == Resolve(f, p).kind = "dir"

\* ------------------------------------------------------ directory lister
\* utils.safe_windows_listdir: the names in the directory, or the empty list
\* when os.listdir fails (no such path, not a directory, access denied)
safe_windows_listdir(f, p) ==
    LET t == Resolve(f, p)
    IN  IF t.kind = "dir" /\ f[t.dir].readable
        THEN [i \in 1..Len(f[t.dir].entries) |-> f[t.dir].entries[i].name]
        ELSE <<>>

\* the dictionary navigation.list_directory builds for one name (the
\* modification date is left out: nothing reads it)
ItemOf(f, p, name) ==
    LET e == EntryOf(f, Resolve(f, p).dir, name)
        is_dir == IsDir(f, Join(p, name))
    IN  [name |-> name,
         type |-> IF is_dir THEN "folder" ELSE "file",
         size |-> IF is_dir THEN 0 ELSE e.size,
         hidden |-> e.hidden]

\* navigation.list_directory: os.path.getsize raises on a name that cannot be
\* statted (a link whose target is gone) and the handler drops the whole listing
list_directory(f, p) ==
    LET names == safe_windows_listdir(f, p)
    IN  IF \E i \in 1..Len(names) : ~Exists(f, Join(p, names[i]))
        THEN [ok |-> FALSE, items |-> <<>>]
        ELSE [ok |-> TRUE, items |-> [i \in 1..Len(names) |-> ItemOf(f, p, names[i])]]

\* ------------------------------------------------------- tree aggregator
\* The four recursive functions of analysis.py share one shape; fn names the
\* function: "count_files", "count_bytes", "analyze_windows_file_types",
\* "get_windows_file_attributes_stats".
AggFns == {"count_files", "count_bytes", "analyze_windows_file_types",
           "get_windows_file_attributes_stats"}

\* the accumulator before the loop
AccZero(fn) ==
    CASE fn \in {"count_files", "count_bytes"} -> 0
      [] fn = "analyze_windows_file_types" -> <<>>
      [] OTHER -> [hidden |-> 0, system |-> 0, readonly |-> 0]

\* what a call returns when it gives up: (False, 0), (False, {}), or the
\* untouched statistic
AggFailure(fn) == [ok |-> FALSE, val |-> AccZero(fn)]

\* the early return after the listing
EarlyReturn(fn, ld) ==
    IF fn \in {"count_files", "get_windows_file_attributes_stats"}
    THEN ~ld.ok \/ ld.items = <<>>
    ELSE ~ld.ok

\* the folders recursed into if every function skipped hidden folders
Descends_HiddenSkipped(fn, item) == item.type = "folder" /\ ~item.hidden

\* the folders a function recurses into
Descends(fn, item) ==
    /\ item.type = "folder"
    /\ (fn = "analyze_windows_file_types" \/ ~item.hidden)

\* statistic[ext]["count"] += c; statistic[ext]["size"] += s
HistAdd(h, ext, c, s) ==
    [k \in DOMAIN h \cup {ext} |->
        [count |-> (IF k \in DOMAIN h THEN h[k].count ELSE 0) + (IF k = ext THEN c ELSE 0),
         size  |-> (IF k \in DOMAIN h THEN h[k].size ELSE 0) + (IF k = ext THEN s ELSE 0)]]

RECURSIVE HistMergeKeys(_, _, _)
HistMergeKeys(h, sub, keys) ==
    IF keys = {} THEN h
    ELSE LET k == CHOOSE x \in keys : TRUE
         IN  HistMergeKeys(HistAdd(h, k, sub[k].count, sub[k].size), sub, keys \ {k})

\* the key without extension.lower()
ExtensionKey_NoLower(name) ==
    IF SplitExt(name) = <<>> THEN NOEXT ELSE SplitExt(name)

\* the key analyze_windows_file_types files a name under
ExtensionKey(name) ==
    LET extension == Lower(SplitExt(name))
    IN  IF extension = <<>> THEN NOEXT ELSE extension

\* os.access(full_path, os.W_OK)
WriteOK(f, p) ==
    LET t == Resolve(f, p)
    IN  t.kind = "dir" \/ (t.kind = "file" /\ ~t.entry.ro)

\* the system-file test of get_windows_file_attributes_stats
IsSystemName(name) == EndsWith(Lower(name), EXT_sys)

\* the loop body for a file with "=" written for "+=": the last file wins
AccFile_Overwrites(fn, acc, f, full_path, item) ==
    CASE fn = "count_files" -> 1
      [] fn = "count_bytes" -> item.size
      [] fn = "analyze_windows_file_types" ->
            [k \in {Lower(SplitExt(item.name))} |-> [count |-> 1, size |-> item.size]]
      [] OTHER ->
            [hidden   |-> IF item.hidden THEN 1 ELSE 0,
             system   |-> IF EndsWith(Lower(item.name), EXT_sys) THEN 1 ELSE 0,
             readonly |-> 0]

\* the loop body for a file
AccFile(fn, acc, f, full_path, item) ==
    CASE fn = "count_files" -> acc + 1
      [] fn = "count_bytes" -> acc + item.size
      [] fn = "analyze_windows_file_types" ->
            HistAdd(acc, ExtensionKey(item.name), 1, item.size)
      [] OTHER ->
            [hidden   |-> acc.hidden + (IF item.hidden THEN 1 ELSE 0),
             system   |-> acc.system + (IF IsSystemName(item.name) THEN 1 ELSE 0),
             readonly |-> acc.readonly + (IF WriteOK(f, full_path) THEN 0 ELSE 1)]

\* the loop body after the recursive call, were a failed subfolder to wipe
\* the caller's running total (the failure's zero taken over)
AccMerge_FailureResets(fn, acc, sub) ==
    CASE fn \in {"count_files", "count_bytes"} ->
            IF sub.ok THEN acc + sub.val ELSE sub.val
      [] fn = "analyze_windows_file_types" ->
            IF sub.ok THEN HistMergeKeys(acc, sub.val, DOMAIN sub.val) ELSE acc
      [] OTHER ->
            [hidden   |-> acc.hidden + sub.val.hidden,
             system   |-> acc.system + sub.val.system,
             readonly |-> acc.readonly + sub.val.readonly]

\* the loop body after the recursive call, were the attribute statistic to
\* take a subfolder's failure for its own and start again from zero
AccMerge_StatsFailureTaken(fn, acc, sub) ==
    CASE fn \in {"count_files", "count_bytes"} ->
            IF sub.ok THEN acc + sub.val ELSE acc
      [] fn = "analyze_windows_file_types" ->
            IF sub.ok THEN HistMergeKeys(acc, sub.val, DOMAIN sub.val) ELSE acc
      [] OTHER ->
            IF sub.ok
            THEN [hidden   |-> acc.hidden + sub.val.hidden,
                  system   |-> acc.system + sub.val.system,
                  readonly |-> acc.readonly + sub.val.readonly]
            ELSE sub.val

\* the loop body after the recursive call returned sub
AccMerge(fn, acc, sub) ==
    CASE fn \in {"count_files", "count_bytes"} ->
            IF sub.ok THEN acc + sub.val ELSE acc
      [] fn = "analyze_windows_file_types" ->
            IF sub.ok THEN HistMergeKeys(acc, sub.val, DOMAIN sub.val) ELSE acc
      [] OTHER ->
            [hidden   |-> acc.hidden + sub.val.hidden,
             system   |-> acc.system + sub.val.system,
             readonly |-> acc.readonly + sub.val.readonly]

\* One call of an aggregator function at nesting depth `depth`. Past the
\* interpreter's limit the call raises RecursionError, which the function's own
\* "except Exception" turns into its failure value.
RECURSIVE Agg(_, _, _, _)
RECURSIVE AggItems(_, _, _, _, _, _, _)
Agg(fn, f, path, depth) ==
    IF depth > MaxDepth THEN AggFailure(fn)
    ELSE LET ld == list_directory(f, path)
         IN  IF EarlyReturn(fn, ld) THEN AggFailure(fn)
             ELSE [ok |-> TRUE, val |-> AggItems(fn, f, path, ld.items, 1, AccZero(fn), depth)]

AggItems(fn, f, path, items, i, acc, depth) ==
    IF i > Len(items) THEN acc
    ELSE LET item == items[i]
             full_path == Join(path, item.name)
             next ==
                 IF item.type = "file" THEN AccFile(fn, acc, f, full_path, item)
                 ELSE IF Descends(fn, item)
                      THEN AccMerge(fn, acc, Agg(fn, f, full_path, depth + 1))
                      ELSE acc
         IN  AggItems(fn, f, path, items, i + 1, next, depth)

count_files(f, path) == Agg("count_files", f, path, 1)
count_bytes(f, path) == Agg("count_bytes", f, path, 1)
analyze_windows_file_types(f, path) == Agg("analyze_windows_file_types", f, path, 1)
get_windows_file_attributes_stats(f, path) ==
    Agg("get_windows_file_attributes_stats", f, path, 1).val

\* ---------------------------------------------------------- top-N report
\* list.sort(key=size, reverse=True): a stable sort, equal sizes keep their
\* order. Insert x behind every element whose size is at least x's.
RECURSIVE InsertDesc_TiesReversed(_, _)
InsertDesc_TiesReversed(sorted, x) ==
    IF sorted = <<>> THEN <<x>>
    ELSE IF Head(sorted)[2] > x[2]
         THEN <<Head(sorted)>> \o InsertDesc_TiesReversed(Tail(sorted), x)
         ELSE <<x>> \o sorted

RECURSIVE InsertDesc(_, _)
InsertDesc(sorted, x) ==
    IF sorted = <<>> THEN <<x>>
    ELSE IF Head(sorted)[2] >= x[2] THEN <<Head(sorted)>> \o InsertDesc(Tail(sorted), x)
    ELSE <<x>> \o sorted

RECURSIVE SortDesc(_, _)
SortDesc(sorted, files) ==
    IF files = <<>> THEN sorted
    ELSE SortDesc(InsertDesc(sorted, Head(files)), Tail(files))

\* the (name, size) pairs of the files of a listing, in listing order
RECURSIVE FilesOf(_)
FilesOf(items) ==
    IF items = <<>> THEN <<>>
    ELSE (IF Head(items).type = "file"
          THEN << <<Head(items).name, Head(items).size>> >>
          ELSE <<>>) \o FilesOf(Tail(items))

\* files.sort(...); files[:n]
TopFiles(items, n) ==
    LET files == SortDesc(<<>>, FilesOf(items))
    IN  SubSeq(files, 1, IF Len(files) < n THEN Len(files) ELSE n)

\* analysis.show_windows_directory_stats: the value returned and the list of
\* largest files printed (empty when the section prints a message instead)
show_windows_directory_stats(f, path) ==
    LET ld == list_directory(f, path)
    IN  [ret |-> /\ count_files(f, path).ok
                 /\ count_bytes(f, path).ok
                 /\ analyze_windows_file_types(f, path).ok,
         top |-> IF ld.ok /\ ld.items # <<>> THEN TopFiles(ld.items, TOP_N) ELSE <<>>]

\* --------------------------------------------------------- search engine
FORBIDDEN_CHARS == {"/", ":", "*", "?", "\"", "<", ">", "|"}

contains_forbidden_chars_NoAngle(name) ==
    \E i \in 1..Len(name) : name[i] \in FORBIDDEN_CHARS \ {"<", ">"}

\* search.contains_forbidden_chars: re.search(r'[\/:*?"<>|]', name)
contains_forbidden_chars(name) == \E i \in 1..Len(name) : name[i] \in FORBIDDEN_CHARS

\* search.is_path_too_long
is_path_too_long(path_str) == Len(path_str) > MAX_PATH

\* search.is_junction_points
is_junction_points(f, p) == IsLink(f, p)

\* the guard, were it to pass over hidden folders as the aggregator does
Guarded_HiddenSkipped(f, name, item_path) ==
    LET item == ItemOf(f, SubSeq(item_path, 1, Len(item_path) - 1), name)
    IN  \/ contains_forbidden_chars(name) \/ is_path_too_long(PathStr(item_path))
        \/ IsLink(f, item_path) \/ is_junction_points(f, item_path)
        \/ (item.type = "folder" /\ item.hidden)

\* the guard every search loop starts with
Guarded(f, name, item_path) ==
    \/ contains_forbidden_chars(name) \/ is_path_too_long(PathStr(item_path))
    \/ IsLink(f, item_path) \/ is_junction_points(f, item_path)

\* fnmatch.fnmatchcase for patterns of literals, "?" and "*"
RECURSIVE fnmatchcase(_, _)
fnmatchcase(name, pat) ==
    IF pat = <<>> THEN name = <<>>
    ELSE IF Head(pat) = "*"
         THEN fnmatchcase(name, Tail(pat)) \/ (name # <<>> /\ fnmatchcase(Tail(name), pat))
         ELSE /\ name # <<>>
              /\ (Head(pat) = "?" \/ Head(pat) = Head(name))
              /\ fnmatchcase(Tail(name), Tail(pat))

match_func(case_sensitive, name, pattern) ==
    IF case_sensitive THEN fnmatchcase(name, pattern)
    ELSE fnmatchcase(Lower(name), Lower(pattern))

\* search.find_files_windows, with its accumulator matched_files
RECURSIVE find_files_windows(_, _, _, _, _)
RECURSIVE FindFilesItems(_, _, _, _, _, _, _)
find_files_windows(f, pattern, case_sensitive, current_path, matched_files) ==
    LET ld == list_directory(f, current_path)
    IN  IF ~ld.ok THEN matched_files
        ELSE FindFilesItems(f, pattern, case_sensitive, current_path, ld.items, 1, matched_files)

FindFilesItems(f, pattern, case_sensitive, current_path, items, i, matched_files) ==
    IF i > Len(items) THEN matched_files
    ELSE LET item == items[i]
             item_path == Join(current_path, item.name)
             next ==
                 IF Guarded(f, item.name, item_path) THEN matched_files
                 ELSE IF item.type = "folder"
                      THEN find_files_windows(f, pattern, case_sensitive, item_path, matched_files)
                      ELSE IF /\ match_func(case_sensitive, item.name, pattern)
                              /\ ~is_path_too_long(PathStr(item_path))
                           THEN Append(matched_files, item_path)
                           ELSE matched_files
         IN  FindFilesItems(f, pattern, case_sensitive, current_path, items, i + 1, next)

\* str.strip()
RECURSIVE Strip(_)
Strip(s) ==
    IF s # <<>> /\ Head(s) = " " THEN Strip(Tail(s))
    ELSE IF s # <<>> /\ s[Len(s)] = " " THEN Strip(SubSeq(s, 1, Len(s) - 1))
    ELSE s

\* the normalisation loop of find_by_windows_extension
NormalizeExt(ext) ==
    LET e == Lower(Strip(ext))
    IN  IF StartsWith(e, <<".">>) THEN e ELSE <<".">> \o e

InSeq(x, s) == \E i \in 1..Len(s) : s[i] = x

\* filter of a list, keeping the order
RECURSIVE SelectSeqBy(_, _)
SelectSeqBy(s, keep) ==
    IF s = <<>> THEN <<>>
    ELSE (IF Head(s) \in keep THEN <<Head(s)>> ELSE <<>>) \o SelectSeqBy(Tail(s), keep)

\* find_by_windows_extension.recursive_scan
RECURSIVE recursive_scan(_, _, _, _)
RECURSIVE ScanItems(_, _, _, _, _, _)
recursive_scan(f, relevant_exts, current_dir, matched_files) ==
    LET ld == list_directory(f, current_dir)
    IN  IF ~ld.ok THEN matched_files
        ELSE ScanItems(f, relevant_exts, current_dir, ld.items, 1, matched_files)

ScanItems(f, relevant_exts, current_dir, items, i, matched_files) ==
    IF i > Len(items) THEN matched_files
    ELSE LET item == items[i]
             full_path == Join(current_dir, item.name)
             next ==
                 IF Guarded(f, item.name, full_path) THEN matched_files
                 ELSE IF item.type = "folder"
                      THEN recursive_scan(f, relevant_exts, full_path, matched_files)
                      ELSE IF /\ InSeq(Lower(SplitExt(item.name)), relevant_exts)
                              /\ ~is_path_too_long(PathStr(full_path))
                           THEN Append(matched_files, full_path)
                           ELSE matched_files
         IN  ScanItems(f, relevant_exts, current_dir, items, i + 1, next)

\* search.find_by_windows_extension
find_by_windows_extension(f, extensions, path) ==
    IF ~Exists(f, path) \/ ~IsDir(f, path) THEN <<>>
    ELSE LET normalized_exts == [i \in 1..Len(extensions) |-> NormalizeExt(extensions[i])]
             st == analyze_windows_file_types(f, path)
             relevant_exts ==
                 SelectSeqBy(normalized_exts,
                             {e \in Range(normalized_exts) :
                                 e \in DOMAIN st.val /\ st.val[e].count > 0})
         IN  IF ~st.ok THEN <<>>
             ELSE IF relevant_exts = <<>> THEN <<>>
             ELSE recursive_scan(f, relevant_exts, path, <<>>)

\* find_large_files_windows.scan_directory. The size is asked of
\* analysis.count_bytes with the file's own path; size_mb, the same number
\* divided by 1024 * 1024, is left out.
RECURSIVE scan_directory(_, _, _, _)
RECURSIVE LargeItems(_, _, _, _, _, _)
scan_directory(f, min_size_bytes, dir_path, large_files) ==
    LET ld == list_directory(f, dir_path)
    IN  IF ~ld.ok THEN large_files
        ELSE LargeItems(f, min_size_bytes, dir_path, ld.items, 1, large_files)

LargeItems(f, min_size_bytes, dir_path, items, i, large_files) ==
    IF i > Len(items) THEN large_files
    ELSE LET item == items[i]
             full_path == Join(dir_path, item.name)
             sz == count_bytes(f, full_path)
             next ==
                 IF Guarded(f, item.name, full_path) THEN large_files
                 ELSE IF item.type = "file"
                      THEN IF sz.ok /\ sz.val >= min_size_bytes
                           THEN Append(large_files,
                                       [path |-> full_path,
                                        size_bytes |-> sz.val,
                                        name |-> Basename(full_path),
                                        type |-> SplitExt(Basename(full_path))])
                           ELSE large_files
                      ELSE scan_directory(f, min_size_bytes, full_path, large_files)
         IN  LargeItems(f, min_size_bytes, dir_path, items, i + 1, next)

\* search.find_large_files_windows
find_large_files_windows(f, min_size_mb, path) ==
    scan_directory(f, min_size_mb * MB, path, <<>>)

\* navigation.get_windows_special_folders: the three folders of the user
\* profile, which is the tree's root here
USERPROFILE == <<"ROOT">>
get_windows_special_folders ==
    [Desktop |-> Join(USERPROFILE, N_Desktop),
     Documents |-> Join(USERPROFILE, N_Documents),
     Downloads |-> Join(USERPROFILE, N_Downloads)]

sys_extensions == <<EXT_exe, EXT_dll, EXT_sys>>

\* one directory scanned with a descent into its folders added
RECURSIVE SystemEntries_Recursive(_, _, _, _, _)
SystemEntries_Recursive(f, dir_path, entries, i, system_files) ==
    IF i > Len(entries) THEN system_files
    ELSE LET name == entries[i].name
             full_path == Join(dir_path, name)
             next ==
                 IF Guarded(f, name, full_path) THEN system_files
                 ELSE IF /\ entries[i].kind = "file"
                         /\ InSeq(Lower(SplitExt(name)), sys_extensions)
                      THEN Append(system_files, full_path)
                      ELSE IF entries[i].kind = "folder"
                           THEN SystemEntries_Recursive(f, full_path, f[entries[i].to].entries,
                                                        1, system_files)
                           ELSE system_files
         IN  SystemEntries_Recursive(f, dir_path, entries, i + 1, next)

\* one directory of find_windows_system_files: os.scandir raises when the
\* path is no readable directory and the handler moves on; an entry that
\* cannot be statted is no file
RECURSIVE SystemEntries(_, _, _, _, _)
SystemEntries(f, dir_path, entries, i, system_files) ==
    IF i > Len(entries) THEN system_files
    ELSE LET name == entries[i].name
             full_path == Join(dir_path, name)
             next ==
                 IF Guarded(f, name, full_path) THEN system_files
                 ELSE IF /\ entries[i].kind = "file"
                         /\ InSeq(Lower(SplitExt(name)), sys_extensions)
                      THEN Append(system_files, full_path)
                      ELSE system_files
         IN  SystemEntries(f, dir_path, entries, i + 1, next)

RECURSIVE SystemDirs(_, _, _)
SystemDirs(f, search_dirs, system_files) ==
    IF search_dirs = <<>> THEN system_files
    ELSE LET dir_path == Head(search_dirs)
             t == Resolve(f, dir_path)
             next ==
                 IF ~Exists(f, dir_path) THEN system_files
                 ELSE IF t.kind = "dir" /\ f[t.dir].readable
                      THEN SystemEntries(f, dir_path, f[t.dir].entries, 1, system_files)
                      ELSE system_files
         IN  SystemDirs(f, Tail(search_dirs), next)

\* search.find_windows_system_files
find_windows_system_files(f, path) ==
    LET special_dirs == get_windows_special_folders
    IN  SystemDirs(f, <<special_dirs.Desktop, special_dirs.Documents,
                        special_dirs.Downloads, path>>, <<>>)

\* ------------------------------------------------------------ the inputs
\* the paths the user runs a command at: the root under both spellings, a
\* folder below it and a file below it (either may be missing)
StartPaths == {<<"ROOT">>, <<"XROOT">>, <<"ROOT", N_Desktop>>, <<"ROOT", N_mk>>}

Patterns == {<<"*", ".", "t", "x", "t">>, <<"?", "k">>}

ExtLists == { << <<"t", "x", "t">> >>,
              << <<" ", ".", "T", "X", "T">>, <<"s", "y", "s">> >>,
              << NOEXT >> }

MinSizesMB == {0, 1}

NoRes == [op |-> "none", path |-> <<>>, arg |-> <<>>, out |-> <<>>]

Idle == wfn = "idle"

\* at the menu: no walk in progress and the last output already shown
AtMenu == Idle /\ res.op = "none"

\* ------------------------------------------------------- the environment
AppendEntry(f, d, e) == [f EXCEPT ![d].entries = Append(@, e)]

CanAdd(d, name) ==
    /\ AtMenu
    /\ NEntries(fs) < MaxEntries
    /\ d \in Dirs(fs)
    /\ name \notin NamesIn(fs, d)

\* a file appears in directory d
AddFile(d, k) ==
    /\ CanAdd(d, k.name)
    /\ fs' = AppendEntry(fs, d, [name |-> k.name, kind |-> "file", size |-> k.size,
                                 hidden |-> k.hidden, ro |-> k.ro, to |-> 0])
    /\ res' = NoRes
    /\ UNCHANGED <<wfn, stack>>

\* an empty folder appears in directory d
AddFolder(d, k) ==
    /\ CanAdd(d, k.name)
    /\ fs' = Append(AppendEntry(fs, d, [name |-> k.name, kind |-> "folder", size |-> 0,
                                        hidden |-> k.hidden, ro |-> FALSE,
                                        to |-> Len(fs) + 1]),
                    [readable |-> TRUE, entries |-> <<>>])
    /\ res' = NoRes
    /\ UNCHANGED <<wfn, stack>>

\* a symbolic link (or junction) to directory t appears in directory d
AddLink(d, t) ==
    /\ CanAdd(d, N_lnk)
    /\ t \in Dirs(fs)
    /\ fs' = AppendEntry(fs, d, [name |-> N_lnk, kind |-> "link", size |-> 0,
                                 hidden |-> FALSE, ro |-> FALSE, to |-> t])
    /\ res' = NoRes
    /\ UNCHANGED <<wfn, stack>>

\* a link whose target is gone appears in directory d
AddDead(d) ==
    /\ CanAdd(d, N_dead)
    /\ fs' = AppendEntry(fs, d, [name |-> N_dead, kind |-> "dead", size |-> 0,
                                 hidden |-> FALSE, ro |-> FALSE, to |-> 0])
    /\ res' = NoRes
    /\ UNCHANGED <<wfn, stack>>

\* directory d becomes unreadable (at most one directory is)
Deny(d) ==
    /\ AtMenu
    /\ d \in Dirs(fs)
    /\ \A x \in Dirs(fs) : fs[x].readable
    /\ fs' = [fs EXCEPT ![d].readable = FALSE]
    /\ res' = NoRes
    /\ UNCHANGED <<wfn, stack>>

\* ---------------------------------------------------- the aggregator walk
\* The recursion of an aggregator function, one step at a time. A frame is
\* one call: its path, the listing it loops over, the loop index, the
\* accumulator, and whether the call returns early with its failure value.
NewFrame(fn, f, path) ==
    LET ld == list_directory(f, path)
    IN  [path |-> path, items |-> ld.items, i |-> 1, acc |-> AccZero(fn),
         early |-> EarlyReturn(fn, ld)]

Top == stack[Len(stack)]
SetTop(fr) == [stack EXCEPT ![Len(stack)] = fr]
InLoop == ~Idle /\ ~Top.early /\ Top.i <= Len(Top.items)

\* the top-level call
WalkCall(fn, p) ==
    /\ AtMenu
    /\ wfn' = fn
    /\ stack' = <<NewFrame(fn, fs, p)>>
    /\ res' = NoRes
    /\ UNCHANGED fs

\* the loop meets a file
WalkFile ==
    /\ InLoop
    /\ Top.items[Top.i].type = "file"
    /\ stack' = SetTop([Top EXCEPT
                          !.acc = AccFile(wfn, @, fs, Join(Top.path, Top.items[Top.i].name),
                                          Top.items[Top.i]),
                          !.i = @ + 1])
    /\ UNCHANGED <<fs, res, wfn>>

\* the loop meets a folder it does not recurse into
WalkSkip ==
    /\ InLoop
    /\ Top.items[Top.i].type = "folder"
    /\ ~Descends(wfn, Top.items[Top.i])
    /\ stack' = SetTop([Top EXCEPT !.i = @ + 1])
    /\ UNCHANGED <<fs, res, wfn>>

\* the loop meets a folder it recurses into: the recursive call starts, or,
\* past the interpreter's limit, raises and returns the failure value at once
WalkDescend ==
    /\ InLoop
    /\ Descends(wfn, Top.items[Top.i])
    /\ \/ /\ Len(stack) < MaxDepth
          /\ stack' = Append(stack, NewFrame(wfn, fs, Join(Top.path, Top.items[Top.i].name)))
       \/ /\ Len(stack) >= MaxDepth
          /\ stack' = SetTop([Top EXCEPT !.acc = AccMerge(wfn, @, AggFailure(wfn)),
                                         !.i = @ + 1])
    /\ UNCHANGED <<fs, res, wfn>>

\* what the finished innermost call returns
Returned == IF Top.early THEN AggFailure(wfn) ELSE [ok |-> TRUE, val |-> Top.acc]

\* the innermost call returns: to its caller's loop, or to the user
WalkReturn ==
    /\ ~Idle
    /\ Top.early \/ Top.i > Len(Top.items)
    /\ \/ /\ Len(stack) > 1
          /\ LET caller == stack[Len(stack) - 1]
             IN  stack' = [SubSeq(stack, 1, Len(stack) - 1) EXCEPT
                              ![Len(stack) - 1] =
                                  [caller EXCEPT !.acc = AccMerge(wfn, @, Returned),
                                                 !.i = @ + 1]]
          /\ UNCHANGED <<res, wfn>>
       \/ /\ Len(stack) = 1
          /\ res' = [op |-> wfn, path |-> Top.path, arg |-> <<>>,
                     out |-> IF wfn = "get_windows_file_attributes_stats"
                             THEN Returned.val ELSE Returned]
          /\ wfn' = "idle"
          /\ stack' = <<>>
    /\ UNCHANGED fs

\* ------------------------------------------------- the top-level commands
Call(op, p, arg, out) ==
    /\ AtMenu
    /\ res' = [op |-> op, path |-> p, arg |-> arg, out |-> out]
    /\ UNCHANGED <<fs, wfn, stack>>

ListDirectory(p) == Call("list_directory", p, <<>>, list_directory(fs, p))

ShowStats(p) ==
    Call("show_windows_directory_stats", p, <<>>, show_windows_directory_stats(fs, p))

FindFiles(pattern, case_sensitive, p) ==
    Call("find_files_windows", p, <<pattern, case_sensitive>>,
         find_files_windows(fs, pattern, case_sensitive, p, <<>>))

FindByExtension(extensions, p) ==
    Call("find_by_windows_extension", p, extensions,
         find_by_windows_extension(fs, extensions, p))

FindLarge(min_size_mb, p) ==
    Call("find_large_files_windows", p, min_size_mb,
         find_large_files_windows(fs, min_size_mb, p))

FindSystem(p) ==
    Call("find_windows_system_files", p, <<>>, find_windows_system_files(fs, p))

\* the output has been read: back to the menu
Prompt ==
    /\ Idle
    /\ res.op # "none"
    /\ res' = NoRes
    /\ UNCHANGED <<fs, wfn, stack>>

\* ------------------------------------------------------ the specification
Init ==
    /\ fs = << [readable |-> TRUE, entries |-> <<>>] >>
    /\ res = NoRes
    /\ wfn = "idle"
    /\ stack = <<>>

Next ==
    \/ \E d \in Dirs(fs), k \in FileKinds : AddFile(d, k)
    \/ \E d \in Dirs(fs), k \in FolderKinds : AddFolder(d, k)
    \/ \E d \in Dirs(fs), t \in Dirs(fs) : AddLink(d, t)
    \/ \E d \in Dirs(fs) : AddDead(d)
    \/ \E d \in Dirs(fs) : Deny(d)
    \/ \E fn \in AggFns, p \in StartPaths : WalkCall(fn, p)
    \/ WalkFile
    \/ WalkSkip
    \/ WalkDescend
    \/ WalkReturn
    \/ \E p \in StartPaths : ListDirectory(p)
    \/ \E p \in StartPaths : ShowStats(p)
    \/ \E pat \in Patterns, cs \in BOOLEAN, p \in StartPaths : FindFiles(pat, cs, p)
    \/ \E exts \in ExtLists, p \in StartPaths : FindByExtension(exts, p)
    \/ \E m \in MinSizesMB, p \in StartPaths : FindLarge(m, p)
    \/ \E p \in StartPaths : FindSystem(p)
    \/ Prompt

Spec == Init /\ [][Next]_vars

\* the walk is a sequential computation: once called it runs on
FairSpec == Spec /\ WF_vars(WalkFile \/ WalkSkip \/ WalkDescend \/ WalkReturn)

\* ---------------------------------------------------- the aggregator alone
\* The environment and the walks of the four aggregator functions, without
\* the lister and search commands.
NextAgg ==
    \/ \E d \in Dirs(fs), k \in FileKinds : AddFile(d, k)
    \/ \E d \in Dirs(fs), k \in FolderKinds : AddFolder(d, k)
    \/ \E d \in Dirs(fs), t \in Dirs(fs) : AddLink(d, t)
    \/ \E d \in Dirs(fs) : AddDead(d)
    \/ \E d \in Dirs(fs) : Deny(d)
    \/ \E fn \in AggFns, p \in StartPaths : WalkCall(fn, p)
    \/ WalkFile
    \/ WalkSkip
    \/ WalkDescend
    \/ WalkReturn
    \/ Prompt

SpecAgg == Init /\ [][NextAgg]_vars

\* ------------------------------------------------- the top-N report alone
\* A flat listing of up to MaxList files with sizes that tie, behind an
\* optional folder that holds a larger file; the report is run on it.
UnaryName(i) == [j \in 1..i |-> "f"]

TopSizes == {10, 30}

TopListings == UNION {[1..k -> TopSizes] : k \in 0..MaxList}

TopTree(sizes, withFolder) ==
    LET files == [i \in 1..Len(sizes) |->
                     [name |-> UnaryName(i), kind |-> "file", size |-> sizes[i],
                      hidden |-> FALSE, ro |-> FALSE, to |-> 0]]
    IN  IF withFolder
        THEN << [readable |-> TRUE,
                 entries |-> << [name |-> N_Desktop, kind |-> "folder", size |-> 0,
                                 hidden |-> FALSE, ro |-> FALSE, to |-> 2] >> \o files],
                [readable |-> TRUE,
                 entries |-> << [name |-> N_mk, kind |-> "file", size |-> 50,
                                 hidden |-> FALSE, ro |-> FALSE, to |-> 0] >>] >>
        ELSE << [readable |-> TRUE, entries |-> files] >>

InitTop ==
    /\ \E sizes \in TopListings, withFolder \in BOOLEAN : fs = TopTree(sizes, withFolder)
    /\ res = NoRes
    /\ wfn = "idle"
    /\ stack = <<>>

NextTop ==
    \/ ShowStats(<<"ROOT">>)
    \/ Prompt

SpecTop == InitTop /\ [][NextTop]_vars

\* ------------------------------------- commands repeated on a nested tree
\* A root that holds one folder, with one file inside, and possibly one file
\* beside it. The folder is a special folder of the profile or an ordinary
\* one; the commands are run on it and run again on the unchanged tree.
N_sub == <<"s", "u", "b">>

NestedFolders == {[name |-> n, hidden |-> h] : n \in {N_Desktop, N_sub}, h \in BOOLEAN}

FileEntry(k) ==
    [name |-> k.name, kind |-> "file", size |-> k.size,
     hidden |-> k.hidden, ro |-> k.ro, to |-> 0]

NestedTree(folder, inner, beside) ==
    << [readable |-> TRUE,
        entries |-> << [name |-> folder.name, kind |-> "folder", size |-> 0,
                        hidden |-> folder.hidden, ro |-> FALSE, to |-> 2] >>
                    \o [i \in 1..Len(beside) |-> FileEntry(beside[i])]],
       [readable |-> TRUE, entries |-> << FileEntry(inner) >>] >>

NestedTrees ==
    {NestedTree(folder, inner, beside) :
        folder \in NestedFolders, inner \in FileKinds,
        beside \in {<<>>} \cup {<<k>> : k \in FileKinds}}

\* find_files_windows: "if matched_files is None: matched_files = []". The
\* parameter's default is None, so a call without accumulator starts from a
\* new empty list whatever the previous call returned.
DefaultMatchedFiles_Shared(previous) == previous

DefaultMatchedFiles(previous) == <<>>

RepeatOps == AggFns \cup {"find_files_windows", "find_by_windows_extension",
                          "find_large_files_windows"}

\* the same call made a second time, the tree unchanged
SecondCall ==
    CASE res.op = "find_files_windows" ->
            find_files_windows(fs, res.arg[1], res.arg[2], res.path,
                               DefaultMatchedFiles(res.out))
      [] res.op = "find_by_windows_extension" ->
            find_by_windows_extension(fs, res.arg, res.path)
      [] res.op = "find_large_files_windows" ->
            find_large_files_windows(fs, res.arg, res.path)
      [] res.op = "get_windows_file_attributes_stats" ->
            get_windows_file_attributes_stats(fs, res.path)
      [] OTHER -> Agg(res.op, fs, res.path, 1)

Again ==
    /\ Idle
    /\ res.op \in RepeatOps
    /\ "first" \notin DOMAIN res
    /\ res' = [op |-> res.op, path |-> res.path, arg |-> res.arg,
               out |-> SecondCall, first |-> res.out]
    /\ UNCHANGED <<fs, wfn, stack>>

InitRepeat ==
    /\ fs \in NestedTrees
    /\ res = NoRes
    /\ wfn = "idle"
    /\ stack = <<>>

NextRepeat ==
    \/ \E fn \in AggFns, p \in StartPaths : WalkCall(fn, p)
    \/ WalkFile
    \/ WalkSkip
    \/ WalkDescend
    \/ WalkReturn
    \/ \E pat \in Patterns, cs \in BOOLEAN, p \in StartPaths : FindFiles(pat, cs, p)
    \/ \E exts \in ExtLists, p \in StartPaths : FindByExtension(exts, p)
    \/ \E m \in MinSizesMB, p \in StartPaths : FindLarge(m, p)
    \/ \E p \in StartPaths : FindSystem(p)
    \/ Again
    \/ Prompt

SpecRepeat == InitRepeat /\ [][NextRepeat]_vars

\* -------------------------------------------------- navigation and the loop
\* The path validator, the two navigation functions and the command loop of
\* main.py. Here a path is the string the program holds, character by
\* character; what a command prints is not part of the state.
SEPS == {"\\", "/"}
DIGITS == <<"0", "1", "2", "3", "4", "5", "6", "7", "8", "9">>

\* str.upper()
UpperChar(c) ==
    IF \E i \in 1..26 : LOWER[i] = c
    THEN UPPER[CHOOSE i \in 1..26 : LOWER[i] = c]
    ELSE c

Upper(s) == [i \in 1..Len(s) |-> UpperChar(s[i])]

IsLetter(c) == c \in Range(UPPER) \cup Range(LOWER)

\* [part for part in re.split(r'[\\/]+', s) if part]: the runs of characters
\* between separators, in order
SplitParts(s) ==
    LET starts == {i \in 1..Len(s) : s[i] \notin SEPS /\ (i = 1 \/ s[i - 1] \in SEPS)}
        ends == {i \in 1..Len(s) : s[i] \notin SEPS /\ (i = Len(s) \/ s[i + 1] \in SEPS)}
        Nth(set, n) == CHOOSE i \in set : Cardinality({j \in set : j < i}) = n - 1
    IN  [n \in 1..Cardinality(starts) |-> SubSeq(s, Nth(starts, n), Nth(ends, n))]

\* re.search(r'[\\/]{2,}', s)
HasDoubleSep(s) == \E i \in 1..(Len(s) - 1) : s[i] \in SEPS /\ s[i + 1] \in SEPS

reserved_names ==
    { <<"C", "O", "N">>, <<"P", "R", "N">>, <<"A", "U", "X">>, <<"N", "U", "L">> }
    \cup { <<"C", "O", "M", DIGITS[d]>> : d \in 2..10 }
    \cup { <<"L", "P", "T", DIGITS[d]>> : d \in 2..10 }

\* os.path.splitext(part)[0]
SplitExtRoot(part) == SubSeq(part, 1, Len(part) - Len(SplitExt(part)))

\* utils.validate_windows_path: the flag of the pair it returns (the message is
\* left out; the characters that only earn a warning do not change the flag)
validate_windows_path(p_str) ==
    LET disk_match == Len(p_str) >= 2 /\ IsLetter(p_str[1]) /\ p_str[2] = ":"
        remaining_path == IF disk_match THEN SubSeq(p_str, 3, Len(p_str)) ELSE p_str
        colon_count == Cardinality({i \in 1..Len(p_str) : p_str[i] = ":"})
        path_parts == SplitParts(remaining_path)
        unc == StartsWith(p_str, <<"\\", "\\">>)
        first_sep == IF \E i \in 3..Len(p_str) : p_str[i] \in SEPS
                     THEN CHOOSE i \in 3..Len(p_str) :
                              /\ p_str[i] \in SEPS
                              /\ \A j \in 3..(i - 1) : p_str[j] \notin SEPS
                     ELSE 0
    IN  /\ Strip(p_str) # <<>>
        /\ ~(/\ ~disk_match
             /\ unc
             /\ (Len(p_str) < 4 \/ "\\" \notin Range(SubSeq(p_str, 3, Len(p_str)))))
        /\ colon_count <= 1
        /\ ~(colon_count = 1 /\ ~disk_match)
        /\ \A i \in 1..Len(remaining_path) :
              remaining_path[i] \notin {"<", ">", ":", "\"", "|", "?", "*"}
        /\ \A k \in 1..Len(path_parts) :
              LET part == path_parts[k]
              IN  /\ Upper(SplitExtRoot(part)) \notin reserved_names
                  /\ part[Len(part)] # "."
                  /\ part[Len(part)] # " "
                  /\ part[1] # " "
        /\ IF StartsWith(p_str, EXT_PREFIX) THEN Len(p_str) <= 32767
           ELSE Len(p_str) <= MAX_PATH
        /\ ~("\\" \in Range(p_str) /\ "/" \in Range(p_str))
        /\ IF StartsWith(p_str, EXT_PREFIX)
           THEN ~HasDoubleSep(SubSeq(p_str, 5, Len(p_str)))
           ELSE IF unc
                THEN first_sep > 3 => ~HasDoubleSep(SubSeq(p_str, first_sep + 1, Len(p_str)))
                ELSE ~HasDoubleSep(p_str)

\* str.rstrip of the separators
RECURSIVE RStripSeps(_)
RStripSeps(s) ==
    IF s # <<>> /\ s[Len(s)] \in SEPS THEN RStripSeps(SubSeq(s, 1, Len(s) - 1)) ELSE s

\* os.path.dirname of a path that is relative or starts with a drive letter:
\* the drive, then the text up to the last separator with the trailing
\* separators dropped unless nothing else is left
os_path_dirname(p_str) ==
    LET drive == IF Len(p_str) >= 2 /\ p_str[2] = ":" THEN SubSeq(p_str, 1, 2) ELSE <<>>
        rest == SubSeq(p_str, Len(drive) + 1, Len(p_str))
        seps == {i \in 1..Len(rest) : rest[i] \in SEPS}
        last == IF seps = {} THEN 0 ELSE CHOOSE i \in seps : \A j \in seps : j <= i
        head == SubSeq(rest, 1, last)
    IN  drive \o (IF RStripSeps(head) = <<>> THEN head ELSE RStripSeps(head))

\* utils.get_parent_path on Windows
get_parent_path(p_str) ==
    LET parent == os_path_dirname(p_str)
    IN  IF Len(parent) = 2 /\ IsLetter(parent[1]) /\ parent[2] = ":"
        THEN parent \o <<SEP>>
        ELSE parent

\* os.path.join(path, name) for a name without drive or leading separator
os_path_join(path, name) ==
    IF path = <<>> \/ path[Len(path)] \in SEPS \cup {":"}
    THEN path \o name
    ELSE path \o <<SEP>> \o name

\* navigation.move_up
move_up(current_path) ==
    LET parent_path == get_parent_path(current_path)
    IN  IF validate_windows_path(parent_path) THEN parent_path ELSE current_path

\* navigation.move_down, were the refused path handed back
move_down_KeepsRefused(current_path, target_dir) ==
    LET new_path == os_path_join(current_path, target_dir)
    IN  [ok |-> validate_windows_path(new_path), path |-> new_path]

\* navigation.move_down
move_down(current_path, target_dir) ==
    LET new_path == os_path_join(current_path, target_dir)
    IN  IF validate_windows_path(new_path) THEN [ok |-> TRUE, path |-> new_path]
        ELSE [ok |-> FALSE, path |-> current_path]

\* what input() does with what the user types: Ctrl-C raises
\* KeyboardInterrupt, the end of input raises EOFError, a line is returned
CTRL_C == <<"^C">>
CTRL_Z == <<"^Z">>

InputRaises(typed) ==
    CASE typed = CTRL_C -> "KeyboardInterrupt"
      [] typed = CTRL_Z -> "EOFError"
      [] OTHER -> "none"

\* int(text): the number, or ValueError
ParseInt(text) ==
    LET t == Strip(text)
        DigitOf(c) == (CHOOSE d \in 1..10 : DIGITS[d] = c) - 1
        RECURSIVE Value(_, _)
        Value(r, acc) == IF r = <<>> THEN acc ELSE Value(Tail(r), 10 * acc + DigitOf(Head(r)))
    IN  IF t # <<>> /\ \A i \in 1..Len(t) : t[i] \in Range(DIGITS)
        THEN [ok |-> TRUE, val |-> Value(t, 0)]
        ELSE [ok |-> FALSE, val |-> 0]

\* how a call ends: with the value it returns, or with an exception; nav is
\* what navigation.move_up or navigation.move_down returned inside it
Returns(path, nav) == [raised |-> "none", ret |-> path, nav |-> nav]
Raises(exception) == [raised |-> exception, ret |-> <<>>, nav |-> <<>>]

\* navigation.list_available_drives
list_available_drives == << <<"C", ":">>, <<"D", ":">> >>

\* os.chdir(path) on a path of the tree: the exception it raises, if any
chdir(f, p) ==
    LET t == Resolve(f, p)
    IN  CASE t.kind = "dir" /\ f[t.dir].readable -> "none"
          [] t.kind = "dir" -> "PermissionError"
          [] t.kind = "file" -> "NotADirectoryError"
          [] OTHER -> "FileNotFoundError"

\* main.handle_windows_navigation
handle_windows_navigation(f, command, current_path, typed) ==
    CASE command = "5" ->
            Returns(move_up(current_path), move_up(current_path))
      [] command = "6" ->
            IF InputRaises(typed) # "none" THEN Raises(InputRaises(typed))
            ELSE LET dir_name == Strip(typed)
                     moved == move_down(current_path, dir_name)
                 IN  IF dir_name = <<>> THEN Returns(current_path, <<>>)
                     ELSE IF moved.ok THEN Returns(moved.path, moved)
                     ELSE Returns(current_path, moved)
      [] command = "7" ->
            IF InputRaises(typed) # "none" THEN Raises(InputRaises(typed))
            ELSE LET drives == list_available_drives
                     choice == ParseInt(typed)
                     new_path == drives[choice.val] \o <<SEP>>
                 IN  IF ~choice.ok THEN Returns(current_path, <<>>)
                     ELSE IF ~(1 <= choice.val /\ choice.val <= Len(drives))
                          THEN Returns(current_path, <<>>)
                     ELSE IF validate_windows_path(new_path) THEN Returns(new_path, <<>>)
                     ELSE Returns(current_path, <<>>)
      [] command = "8" ->
            IF InputRaises(typed) # "none" THEN Raises(InputRaises(typed))
            ELSE LET special_folders == get_windows_special_folders
                     folders_list == <<special_folders.Desktop, special_folders.Documents,
                                       special_folders.Downloads>>
                     choice == ParseInt(typed)
                     path == folders_list[choice.val]
                 IN  IF ~choice.ok THEN Returns(current_path, <<>>)
                     ELSE IF ~(1 <= choice.val /\ choice.val <= Len(folders_list))
                          THEN Returns(current_path, <<>>)
                     ELSE IF ~Exists(f, path) THEN Returns(current_path, <<>>)
                     ELSE IF chdir(f, path) # "none" THEN Raises(chdir(f, path))
                     ELSE Returns(PathStr(path), <<>>)
      [] OTHER -> Returns(current_path, <<>>)

\* main.handle_windows_search: the search menu reads the user's choices and
\* prints; it hands nothing back
handle_windows_search(f, command, current_path, typed) ==
    IF InputRaises(typed) # "none" THEN Raises(InputRaises(typed))
    ELSE Returns(<<>>, <<>>)

\* main.run_windows_command, were the search handler's value kept as the path
run_windows_command_SearchAssigned(f, command, current_path, typed) ==
    CASE command \in {"1", "2", "4"} -> Returns(current_path, <<>>)
      [] command = "3" -> handle_windows_search(f, command, current_path, typed)
      [] command \in {"5", "6", "7", "8"} ->
            handle_windows_navigation(f, command, current_path, typed)
      [] command = "0" -> Raises("SystemExit")
      [] OTHER -> Returns(current_path, <<>>)

\* main.run_windows_command
run_windows_command(f, command, current_path, typed) ==
    CASE command \in {"1", "2", "4"} -> Returns(current_path, <<>>)
      [] command = "3" ->
            IF handle_windows_search(f, command, current_path, typed).raised # "none"
            THEN handle_windows_search(f, command, current_path, typed)
            ELSE Returns(current_path, <<>>)
      [] command \in {"5", "6", "7", "8"} ->
            handle_windows_navigation(f, command, current_path, typed)
      [] command = "0" -> Raises("SystemExit")
      [] OTHER -> Returns(current_path, <<>>)

\* the except clauses of main's loop, in their order, were an operating
\* system error to end the loop as the keyboard interrupt does
main_handler_OSErrorBreaks(raised) ==
    CASE raised = "none" -> "assign"
      [] raised = "KeyboardInterrupt" -> "break"
      [] raised = "PermissionError" -> "continue"
      [] raised \in {"OSError", "FileNotFoundError", "NotADirectoryError"} -> "break"
      [] raised = "SystemExit" -> "raise"
      [] OTHER -> "continue"

\* the except clauses of main's loop, in their order
main_handler(raised) ==
    CASE raised = "none" -> "assign"
      [] raised = "KeyboardInterrupt" -> "break"
      [] raised = "PermissionError" -> "continue"
      [] raised \in {"OSError", "FileNotFoundError", "NotADirectoryError"} -> "continue"
      [] raised = "SystemExit" -> "raise"
      [] OTHER -> "continue"

\* the folders below the drive that navigation is followed into
MaxNav == 3

NavDepth(p_str) == Len(SplitParts(p_str)) - 1

\* what is typed at the menu, and at the prompt a command then shows
Commands == {"0", "1", "2", "3", "4", "5", "6", "7", "8", "9", "", "^C", "^Z"}

TypedFor(command) ==
    CASE command = "3" -> {<<"6">>, CTRL_C, CTRL_Z}
      [] command = "6" -> {<<" ">> \o N_Desktop, N_badDir, <<"c", "o", "n">>, <<"h", ".">>,
                           <<>>, CTRL_C, CTRL_Z}
      [] command \in {"7", "8"} -> {<<"1">>, <<"2">>, <<"3">>, <<"4">>, <<"x">>, CTRL_C, CTRL_Z}
      [] OTHER -> {<<>>}

\* One turn of main's loop: the menu, the command read, run_windows_command,
\* and the assignment to current_path or the except clause that applies.
MainLoop(command, typed) ==
    /\ Idle
    /\ res.running
    /\ command = "6" => NavDepth(res.current_path) < MaxNav
    /\ LET outcome == IF command \in {"^C", "^Z"} THEN Raises(InputRaises(<<command>>))
                      ELSE run_windows_command(fs, command, res.current_path, typed)
           handled == main_handler(outcome.raised)
       IN  res' = [op |-> command, path |-> res.current_path, arg |-> typed,
                   out |-> outcome.ret, raised |-> outcome.raised, nav |-> outcome.nav,
                   current_path |-> IF handled = "assign" THEN outcome.ret
                                    ELSE res.current_path,
                   running |-> handled \in {"assign", "continue"}]
    /\ UNCHANGED <<fs, wfn, stack>>

\* The profile the loop runs in: a Desktop folder that can or cannot be
\* entered, and possibly a file where the Downloads folder should be.
LoopTree(desktopReadable, downloadsFile) ==
    << [readable |-> TRUE,
        entries |-> << [name |-> N_Desktop, kind |-> "folder", size |-> 0,
                        hidden |-> FALSE, ro |-> FALSE, to |-> 2] >>
                    \o (IF downloadsFile
                        THEN << [name |-> N_Downloads, kind |-> "file", size |-> 1,
                                 hidden |-> FALSE, ro |-> FALSE, to |-> 0] >>
                        ELSE <<>>)],
       [readable |-> desktopReadable, entries |-> <<>>] >>

\* os.getcwd() when the program starts: the profile, or a folder deep inside
\* it whose parent's path is longer than MAX_PATH
StartDirs ==
    {RootChars,
     JoinNames(RootChars, <<N_Desktop, N_Desktop, N_sub>>)}

InitLoop ==
    /\ \E r, d \in BOOLEAN : fs = LoopTree(r, d)
    /\ \E cwd \in StartDirs :
          res = [op |-> "none", path |-> <<>>, arg |-> <<>>, out |-> <<>>,
                 raised |-> "none", nav |-> <<>>, current_path |-> cwd, running |-> TRUE]
    /\ wfn = "idle"
    /\ stack = <<>>

NextLoop == \E command \in Commands : \E typed \in TypedFor(command) : MainLoop(command, typed)

SpecLoop == InitLoop /\ [][NextLoop]_vars

\* =================================================================== claims
\* ------------------------------------------------ what the claims speak of
\* the total of the 'count' fields of a histogram
RECURSIVE HistTotalOver(_, _)
HistTotalOver(h, keys) ==
    IF keys = {} THEN 0
    ELSE LET k == CHOOSE x \in keys : TRUE
         IN  h[k].count + HistTotalOver(h, keys \ {k})

HistTotal(h) == HistTotalOver(h, DOMAIN h)

\* the directory a path names, 0 when it names none
DirAt(f, p) == IF IsDir(f, p) THEN Resolve(f, p).dir ELSE 0

\* the path names an existing, readable directory without entries
EmptyReadableDir(f, p) ==
    /\ IsDir(f, p)
    /\ f[DirAt(f, p)].readable
    /\ f[DirAt(f, p)].entries = <<>>

\* the directory at the path cannot be listed: it does not exist, is no
\* directory, or access to it is denied
CannotList(f, p) == ~IsDir(f, p) \/ ~f[DirAt(f, p)].readable

\* C1: for every tree and root, the counts of the extension histogram of
\* analyze_windows_file_types(root) add up to the total of count_files(root).
C1_ExtensionCountInvariant ==
    res.op = "analyze_windows_file_types"
        => HistTotal(res.out.val) = count_files(fs, res.path).val

\* the files in directory d and in the folders below it, links not followed
RECURSIVE FilesWithoutLinks(_, _)
RECURSIVE FilesWithoutLinksFrom(_, _, _)
FilesWithoutLinks(f, d) == FilesWithoutLinksFrom(f, f[d].entries, 1)

FilesWithoutLinksFrom(f, entries, i) ==
    IF i > Len(entries) THEN 0
    ELSE (CASE entries[i].kind = "file" -> 1
            [] entries[i].kind = "folder" -> FilesWithoutLinks(f, entries[i].to)
            [] OTHER -> 0)
         + FilesWithoutLinksFrom(f, entries, i + 1)

\* C2: no aggregator call is made on an entry that is a symbolic link or
\* junction, so count_files counts no file that is reached only through a
\* link: its total is at most the number of files below the root proper.
C2_LinksExcluded ==
    /\ \A i \in 1..Len(stack) : ~IsLink(fs, stack[i].path)
    /\ (res.op = "count_files" /\ IsDir(fs, res.path))
          => res.out.val <= FilesWithoutLinks(fs, DirAt(fs, res.path))

WalkMatchesAgg ==
    res.op \in AggFns =>
        res.out = IF res.op = "get_windows_file_attributes_stats"
                  THEN Agg(res.op, fs, res.path, 1).val
                  ELSE Agg(res.op, fs, res.path, 1)

\* The regular files a search from p can meet: below p through folders that
\* can be listed, no entry on the way a link, forbidden-named or, when
\* checkLength, over-long.
ForbiddenName(name) ==
    \E i \in 1..Len(name) : name[i] \in {"<", ">", ":", "\"", "/", "|", "?", "*"}

RECURSIVE RegularFiles(_, _, _)
RegularFiles(f, p, checkLength) ==
    LET t == Resolve(f, p)
        Below(e) ==
            LET q == Join(p, e.name)
            IN  IF \/ e.kind \in {"link", "dead"}
                   \/ ForbiddenName(e.name)
                   \/ (checkLength /\ Len(PathStr(q)) > 260)
                THEN {}
                ELSE IF e.kind = "file" THEN {q}
                ELSE RegularFiles(f, q, checkLength)
    IN  IF t.kind # "dir" \/ ~f[t.dir].readable
           \/ \E e \in Range(f[t.dir].entries) : e.kind = "dead"
        THEN {}
        ELSE UNION {Below(e) : e \in Range(f[t.dir].entries)}

\* the size in bytes of the file at path q
ActualSize(f, q) == Resolve(f, q).entry.size

\* C4: find_large_files_windows(minMB, root) records a regular file exactly
\* when its size is at least minMB * 1024 * 1024 bytes (the threshold itself
\* included), and the size_bytes recorded is the file's size.
C4_LargeFilesByThreshold ==
    res.op = "find_large_files_windows" =>
        /\ {res.out[i].path : i \in 1..Len(res.out)}
              = {q \in RegularFiles(fs, res.path, TRUE) :
                    ActualSize(fs, q) >= res.arg * 1024 * 1024}
        /\ \A i \in 1..Len(res.out) :
              res.out[i].size_bytes = ActualSize(fs, res.out[i].path)

\* C5: on an existing, readable, empty directory count_files returns
\* (True, 0), count_bytes (True, 0) and analyze_windows_file_types (True, {}).
C5_EmptyDirectorySucceeds ==
    (/\ res.op \in {"count_files", "count_bytes", "analyze_windows_file_types"}
     /\ EmptyReadableDir(fs, res.path))
        => res.out = [ok |-> TRUE, val |-> IF res.op = "analyze_windows_file_types"
                                           THEN <<>> ELSE 0]

\* C6: on a root that cannot be listed (missing or unreadable) count_files,
\* count_bytes and analyze_windows_file_types all report success=false with a
\* zero value.
C6_UnlistableRootFails ==
    (/\ res.op \in {"count_files", "count_bytes", "analyze_windows_file_types"}
     /\ CannotList(fs, res.path))
        => res.out = [ok |-> FALSE, val |-> IF res.op = "analyze_windows_file_types"
                                            THEN <<>> ELSE 0]

\* C7: list_directory returns (False, []) whenever the directory cannot be
\* accessed, and (True, entries) only when the directory was listed, one
\* entry for each name in it.
C7_ListerFailsSoft ==
    res.op = "list_directory" =>
        /\ CannotList(fs, res.path) => res.out = [ok |-> FALSE, items |-> <<>>]
        /\ res.out.ok =>
              /\ ~CannotList(fs, res.path)
              /\ Len(res.out.items) = Len(fs[DirAt(fs, res.path)].entries)
              /\ \A i \in 1..Len(res.out.items) :
                    res.out.items[i].name = fs[DirAt(fs, res.path)].entries[i].name

\* the paths a search returned
ResultPaths ==
    IF res.op = "find_large_files_windows"
    THEN {res.out[i].path : i \in 1..Len(res.out)}
    ELSE {res.out[i] : i \in 1..Len(res.out)}

SearchOps == {"find_files_windows", "find_by_windows_extension",
              "find_large_files_windows", "find_windows_system_files"}

\* the directories a search starts from
SearchRoots ==
    IF res.op = "find_windows_system_files"
    THEN {get_windows_special_folders.Desktop, get_windows_special_folders.Documents,
          get_windows_special_folders.Downloads, res.path}
    ELSE {res.path}

\* C8: no search variant returns an entry whose name holds a forbidden
\* character or whose full path is longer than 260 characters, nor anything
\* below a folder with such a name or path: every returned path is at most
\* 260 characters long and lies below a directory the search started from
\* with no forbidden character in any name on the way.
C8_GuardedEntriesInvisible ==
    res.op \in SearchOps =>
        \A q \in ResultPaths :
            /\ Len(PathStr(q)) <= 260
            /\ \E r \in SearchRoots :
                  /\ Len(r) < Len(q)
                  /\ SubSeq(q, 1, Len(r)) = r
                  /\ \A i \in (Len(r) + 1)..Len(q) : ~ForbiddenName(q[i])

\* a pattern search ran from the root over a tree with a forbidden-named
\* folder that holds a file the pattern matches
C8_Witness ==
    /\ res.op = "find_files_windows"
    /\ res.path = <<"ROOT">>
    /\ res.arg = << <<"*", ".", "t", "x", "t">>, FALSE >>
    /\ IsDir(fs, <<"ROOT", N_badDir>>)
    /\ \E e \in Range(fs[DirAt(fs, <<"ROOT", N_badDir>>)].entries) :
          e.kind = "file" /\ Lower(SplitExt(e.name)) = EXT_txt

\* C9: the 260-character limit does not apply to a path with the
\* extended-length prefix: a pattern search started at the prefixed root
\* returns every matching regular file below it, over-long paths included.
C9_PrefixLiftsLengthLimit ==
    (res.op = "find_files_windows" /\ res.path[1] = "XROOT") =>
        \A q \in RegularFiles(fs, res.path, FALSE) :
            match_func(res.arg[2], Basename(q), res.arg[1]) => q \in ResultPaths

\* C10: the report of largest files lists files of the directory itself, at
\* most 10 of them, larger before smaller and equal sizes in listing order,
\* and every file left out comes behind every file listed in that order.
C10_TopFilesStable ==
    res.op = "show_windows_directory_stats" =>
        LET top == res.out.top
            entries == fs[DirAt(fs, res.path)].entries
            files == {i \in 1..Len(entries) : entries[i].kind = "file"}
            Pos(k) == CHOOSE i \in files : entries[i].name = top[k][1]
            Before(i, j) == \/ entries[i].size > entries[j].size
                            \/ (entries[i].size = entries[j].size /\ i < j)
        IN  top # <<>> =>
              /\ Len(top) = IF Cardinality(files) < 10 THEN Cardinality(files) ELSE 10
              /\ \A k \in 1..Len(top) :
                    \E i \in files : top[k] = <<entries[i].name, entries[i].size>>
              /\ \A k, m \in 1..Len(top) : k < m => Before(Pos(k), Pos(m))
              /\ \A i \in files :
                    (\A k \in 1..Len(top) : Pos(k) # i)
                        => \A k \in 1..Len(top) : Before(Pos(k), i)

\* the report ran on more than 10 files, with a tie inside the list and a
\* tie between a listed file and one left out
C10_Witness ==
    /\ res.op = "show_windows_directory_stats"
    /\ Len(res.out.top) = 10
    /\ \E k \in 1..9 : res.out.top[k][2] = res.out.top[k + 1][2]
    /\ \E e \in Range(fs[1].entries) :
          /\ e.kind = "file"
          /\ e.size = res.out.top[10][2]
          /\ \A k \in 1..10 : res.out.top[k][1] # e.name
    /\ \E e \in Range(fs[1].entries) : e.kind = "folder"

\* the orders in which a listing of n names can come back
Perms(n) == {p \in [1..n -> 1..n] : \A i, j \in 1..n : p[i] = p[j] => i = j}

\* the tree with the entries of directory d listed in order p
PermuteDir(f, d, p) ==
    [f EXCEPT ![d].entries = [i \in 1..Len(f[d].entries) |-> f[d].entries[p[i]]]]

\* C11: the result of an aggregator function is the same whatever the order
\* in which any directory of the tree lists its entries.
C11_OrderIndependent ==
    res.op \in AggFns =>
        \A d \in Dirs(fs) : \A p \in Perms(Len(fs[d].entries)) :
            LET again == Agg(res.op, PermuteDir(fs, d, p), res.path, 1)
            IN  res.out = IF res.op = "get_windows_file_attributes_stats"
                          THEN again.val ELSE again

\* an aggregator ran on a root whose two entries differ, so that the two
\* listing orders are two different walks
C11_Witness ==
    /\ res.op \in AggFns
    /\ res.path = <<"ROOT">>
    /\ Len(fs[1].entries) >= 2
    /\ fs[1].entries[1].kind = "file"
    /\ fs[1].entries[1].size # fs[1].entries[2].size
    /\ \A e \in Range(fs[1].entries) : e.kind # "dead"

\* the bucket each file name of the model belongs to: its suffix from the
\* last dot in lower case, ".noext" for a name without one
BucketOf(name) ==
    CASE name = N_a_txt -> <<".", "t", "x", "t">>
      [] name = N_RE_TXT -> <<".", "t", "x", "t">>
      [] name = N_bad -> <<".", "t", "x", "t">>
      [] name = N_sys -> <<".", "s", "y", "s">>
      [] name = N_mk -> <<".", "n", "o", "e", "x", "t">>
      [] name = N_dot -> <<".", "n", "o", "e", "x", "t">>

EntryAtPath(f, p) ==
    EntryOf(f, Resolve(f, SubSeq(p, 1, Len(p) - 1)).dir, Basename(p))

\* the entries of the directory at p that are files, hidden ones only if asked
DirectFiles(f, p, hiddenOnly) ==
    LET entries == f[DirAt(f, p)].entries
    IN  {i \in 1..Len(entries) :
            entries[i].kind = "file" /\ (hiddenOnly => entries[i].hidden)}

\* C13: no aggregator function makes a recursive call on a hidden folder,
\* while hidden files of a visited directory are counted: count_files counts
\* every file of the directory and the 'hidden' statistic every hidden one.
C13_HiddenFoldersSkipped ==
    /\ \A k \in 2..Len(stack) : ~EntryAtPath(fs, stack[k].path).hidden
    /\ (/\ res.op \in {"count_files", "get_windows_file_attributes_stats"}
        /\ list_directory(fs, res.path).ok
        /\ list_directory(fs, res.path).items # <<>>)
          => IF res.op = "count_files"
             THEN res.out.ok /\ res.out.val >= Cardinality(DirectFiles(fs, res.path, FALSE))
             ELSE res.out.hidden >= Cardinality(DirectFiles(fs, res.path, TRUE))

\* the requested extensions, normalised, none dropped
AllNormalized(extensions) == [i \in 1..Len(extensions) |-> NormalizeExt(extensions[i])]

\* C14: find_by_windows_extension returns what its recursive walk returns
\* when run from the same path with every requested extension, without the
\* histogram filter and its early returns.
C14_PrefilterIsOptimization ==
    res.op = "find_by_windows_extension" =>
        res.out = recursive_scan(fs, AllNormalized(res.arg), res.path, <<>>)

\* a search by extension found files although the histogram filter dropped
\* one of the requested extensions
C14_Witness ==
    /\ res.op = "find_by_windows_extension"
    /\ res.out # <<>>
    /\ \E i \in 1..Len(res.arg) :
          NormalizeExt(res.arg[i]) \notin DOMAIN analyze_windows_file_types(fs, res.path).val

\* the name ends in one of the three system extensions, case ignored
SystemSuffix(name) ==
    \/ EndsWith(Lower(name), <<".", "e", "x", "e">>)
    \/ EndsWith(Lower(name), <<".", "d", "l", "l">>)
    \/ EndsWith(Lower(name), <<".", "s", "y", "s">>)

\* C15: every path find_windows_system_files returns is a file directly
\* inside Desktop, Documents, Downloads or the supplied path, with
\* extension .exe, .dll or .sys; nothing inside a subfolder is returned.
C15_SystemScanOneLevel ==
    res.op = "find_windows_system_files" =>
        \A q \in ResultPaths :
            /\ \E r \in SearchRoots : Len(q) = Len(r) + 1 /\ SubSeq(q, 1, Len(r)) = r
            /\ Resolve(fs, q).kind = "file"
            /\ SystemSuffix(Basename(q))

\* the scan ran from the root and returned a system file, while a subfolder
\* that is none of the four roots holds another system file
C15_Witness ==
    /\ res.op = "find_windows_system_files"
    /\ res.path = <<"ROOT">>
    /\ res.out # <<>>
    /\ Resolve(fs, <<"ROOT", N_sub, N_sys>>).kind = "file"
    /\ ~EntryAtPath(fs, <<"ROOT", N_sub>>).hidden

\* the file name is one the search that ran was asked for
Wanted(name) ==
    IF res.op = "find_files_windows"
    THEN match_func(res.arg[2], name, res.arg[1])
    ELSE \E i \in 1..Len(res.arg) : Lower(SplitExt(name)) = NormalizeExt(res.arg[i])

\* C16: whatever else the start directory holds (an entry that cannot be
\* statted, an unreadable subfolder), a search by pattern or by extension
\* returns every wanted file of that directory with a valid name and path.
C16_SiblingsSurviveFailure ==
    (/\ res.op \in {"find_files_windows", "find_by_windows_extension"}
     /\ ~CannotList(fs, res.path))
        => \A e \in Range(fs[DirAt(fs, res.path)].entries) :
              (/\ e.kind = "file"
               /\ ~ForbiddenName(e.name)
               /\ Len(PathStr(Join(res.path, e.name))) <= 260
               /\ Wanted(e.name))
                  => Join(res.path, e.name) \in ResultPaths

\* what one listed item adds to the caller's total in count_files and
\* count_bytes: a file itself, a visited subfolder what its call returned if
\* that call succeeded, anything else nothing
Contribution(fn, f, p, item) ==
    LET sub == Agg(fn, f, Join(p, item.name), 2)
    IN  IF item.type = "file" THEN (IF fn = "count_files" THEN 1 ELSE item.size)
        ELSE IF item.hidden THEN 0
        ELSE IF sub.ok THEN sub.val ELSE 0

RECURSIVE TotalOf(_, _, _, _)
TotalOf(fn, f, p, items) ==
    IF items = <<>> THEN 0
    ELSE Contribution(fn, f, p, Head(items)) + TotalOf(fn, f, p, Tail(items))

\* the subfolders of the listing whose recursive call fails
FailedSubfolders(fn, f, p, items) ==
    {i \in 1..Len(items) :
        /\ items[i].type = "folder"
        /\ ~items[i].hidden
        /\ ~Agg(fn, f, Join(p, items[i].name), 2).ok}

\* C17: count_files and count_bytes, once past their own early return,
\* return success with the sum of the files and of the subfolder calls that
\* succeeded; a subfolder whose call fails adds 0 and stops nothing.
C17_FailedSubfolderAddsZero ==
    LET ld == list_directory(fs, res.path)
    IN  (/\ res.op \in {"count_files", "count_bytes"}
         /\ ld.ok
         /\ res.op = "count_files" => ld.items # <<>>)
            => res.out = [ok |-> TRUE, val |-> TotalOf(res.op, fs, res.path, ld.items)]

\* the count ran on a directory that lists a file and then a subfolder whose
\* own call fails
C17_Witness ==
    LET ld == list_directory(fs, res.path)
    IN  /\ res.op \in {"count_files", "count_bytes"}
        /\ ld.ok
        /\ Len(ld.items) >= 2
        /\ ld.items[1].type = "file"
        /\ 2 \in FailedSubfolders(res.op, fs, res.path, ld.items)

\* C18: a pattern search returns every regular file below its start path that
\* matches the pattern and has valid names and path length on the way,
\* whether the folders on the way are hidden or not.
C18_HiddenFoldersSearched ==
    res.op = "find_files_windows" =>
        \A q \in RegularFiles(fs, res.path, TRUE) :
            match_func(res.arg[2], Basename(q), res.arg[1]) => q \in ResultPaths

\* a pattern search returned a file from inside a hidden folder
C18_Witness ==
    /\ res.op = "find_files_windows"
    /\ \E q \in ResultPaths :
          /\ Len(q) = Len(res.path) + 2
          /\ EntryAtPath(fs, SubSeq(q, 1, Len(q) - 1)).hidden
          /\ EntryAtPath(fs, SubSeq(q, 1, Len(q) - 1)).kind = "folder"

\* the paths on which an aggregator function is called in the course of one
\* call at nesting depth `depth`
RECURSIVE AggVisited(_, _, _, _)
AggVisited(fn, f, path, depth) ==
    IF depth > MaxDepth THEN {}
    ELSE LET ld == list_directory(f, path)
         IN  {path} \cup
             IF EarlyReturn(fn, ld) THEN {}
             ELSE UNION {IF Descends(fn, ld.items[i])
                         THEN AggVisited(fn, f, Join(path, ld.items[i].name), depth + 1)
                         ELSE {} : i \in 1..Len(ld.items)}

\* the paths a recursive search walk lists: the start path and every folder
\* its guard lets through
RECURSIVE SearchVisited(_, _)
SearchVisited(f, p) ==
    LET ld == list_directory(f, p)
    IN  {p} \cup
        UNION {IF /\ ~Guarded(f, ld.items[i].name, Join(p, ld.items[i].name))
                  /\ ld.items[i].type = "folder"
               THEN SearchVisited(f, Join(p, ld.items[i].name))
               ELSE {} : i \in 1..Len(ld.items)}

\* the directories listed in the course of the search that ran
DirsListed ==
    CASE res.op = "find_windows_system_files" -> SearchRoots
      [] res.op = "find_by_windows_extension" ->
            IF ~IsDir(fs, res.path) THEN {}
            ELSE AggVisited("analyze_windows_file_types", fs, res.path, 1)
                 \cup SearchVisited(fs, res.path)
      [] OTHER -> SearchVisited(fs, res.path)

\* some entry on the way to q is a symbolic link or junction
PassesLink(f, q) == \E k \in 2..Len(q) : IsLink(f, SubSeq(q, 1, k))

\* C19: no search variant lists a directory reached through a symbolic link
\* or junction, nor returns a path that passes through one (which is what
\* keeps a search over a tree with a link back to an ancestor from going
\* round the cycle).
C19_SearchAvoidsLinks ==
    res.op \in SearchOps =>
        /\ \A q \in ResultPaths : ~PassesLink(fs, q)
        /\ \A v \in DirsListed : ~PassesLink(fs, v)

AttrKeys == {"hidden", "system", "readonly"}

\* what one file adds to a key of the attribute statistic
AttrOfFile(k, e) ==
    CASE k = "hidden" -> IF e.hidden THEN 1 ELSE 0
      [] k = "system" -> IF EndsWith(Lower(e.name), <<".", "s", "y", "s">>) THEN 1 ELSE 0
      [] k = "readonly" -> IF e.ro THEN 1 ELSE 0

\* what one listed item adds to a key: a file its own attributes, a visited
\* subfolder what its call returns, and nothing if it cannot be read
AttrContribution(k, f, p, item) ==
    LET q == Join(p, item.name)
    IN  IF item.type = "file" THEN AttrOfFile(k, EntryAtPath(f, q))
        ELSE IF item.hidden THEN 0
        ELSE IF CannotList(f, q) \/ ~list_directory(f, q).ok THEN 0
        ELSE Agg("get_windows_file_attributes_stats", f, q, 2).val[k]

RECURSIVE AttrTotal(_, _, _, _)
AttrTotal(k, f, p, items) ==
    IF items = <<>> THEN 0
    ELSE AttrContribution(k, f, p, Head(items)) + AttrTotal(k, f, p, Tail(items))

\* C21: get_windows_file_attributes_stats returns, for any path, a mapping
\* with exactly the keys hidden, system and readonly, each a count of 0 or
\* more; a path that cannot be listed gives all zeros, and otherwise each key
\* is the sum over the listing, a subfolder that cannot be read adding 0 and
\* taking nothing from its siblings.
C21_AttributeStatsNeverFail ==
    res.op = "get_windows_file_attributes_stats" =>
        LET ld == list_directory(fs, res.path)
        IN  /\ DOMAIN res.out = AttrKeys
            /\ \A k \in AttrKeys :
                  /\ res.out[k] \in Nat
                  /\ res.out[k] = IF CannotList(fs, res.path) \/ ~ld.ok THEN 0
                                  ELSE AttrTotal(k, fs, res.path, ld.items)

\* the statistic was taken of a directory that lists a hidden file and then
\* a subfolder that cannot be read
C21_Witness ==
    LET ld == list_directory(fs, res.path)
    IN  /\ res.op = "get_windows_file_attributes_stats"
        /\ ld.ok
        /\ Len(ld.items) >= 2
        /\ ld.items[1].type = "file"
        /\ ld.items[1].hidden
        /\ ld.items[2].type = "folder"
        /\ ~ld.items[2].hidden
        /\ CannotList(fs, Join(res.path, ld.items[2].name))
        /\ res.out.hidden = 1

\* C22: move_up returns the parent path when the validator accepts it and the
\* current path otherwise; move_down returns (True, joined path) when the
\* validator accepts the joined path and (False, current path) otherwise, and
\* the loop's current path then stays what it was.
C22_NavigationKeepsPath ==
    /\ (res.op = "5" /\ res.raised = "none") =>
          LET parent == get_parent_path(res.path)
          IN  res.nav = IF validate_windows_path(parent) THEN parent ELSE res.path
    /\ (res.op = "6" /\ res.raised = "none" /\ Strip(res.arg) # <<>>) =>
          LET joined == os_path_join(res.path, Strip(res.arg))
          IN  IF validate_windows_path(joined)
              THEN res.nav = [ok |-> TRUE, path |-> joined]
              ELSE res.nav = [ok |-> FALSE, path |-> res.path]
                   /\ res.current_path = res.path

\* a move into a folder was refused because the joined path is too long,
\* from a place reached by an accepted move
C22_Witness ==
    /\ res.op = "6"
    /\ res.raised = "none"
    /\ Strip(res.arg) = N_Desktop
    /\ Len(os_path_join(res.path, N_Desktop)) > 260
    /\ Len(res.path) <= 260
    /\ ~res.nav.ok

\* the tree below p holds no link, no forbidden name and no over-long path
RECURSIVE CleanBelow(_, _)
CleanBelow(f, p) ==
    IsDir(f, p) =>
        \A e \in Range(f[DirAt(f, p)].entries) :
            /\ e.kind \in {"file", "folder"}
            /\ ~ForbiddenName(e.name)
            /\ Len(PathStr(Join(p, e.name))) <= 260
            /\ e.kind = "folder" => CleanBelow(f, Join(p, e.name))

\* C23: on a tree without links, forbidden names or over-long paths, a search
\* for the single extension e, a key of the histogram that
\* analyze_windows_file_types gives for the same root (".noext" included),
\* returns as many files as the histogram counts under e.
C23_HistogramMatchesSearch ==
    LET hist == analyze_windows_file_types(fs, res.path).val
    IN  (/\ res.op = "find_by_windows_extension"
         /\ Len(res.arg) = 1
         /\ CleanBelow(fs, res.path)
         /\ NormalizeExt(res.arg[1]) \in DOMAIN hist)
            => Len(res.out) = hist[NormalizeExt(res.arg[1])].count

\* C24: find_windows_system_files returns no file path twice, whatever the
\* current path, also when it is the Desktop, Documents or Downloads folder.
C24_SystemFilesOnce ==
    res.op = "find_windows_system_files" =>
        \A i, j \in 1..Len(res.out) : res.out[i] = res.out[j] => i = j

\* C25: run_windows_command returns the path it was given for the commands
\* 1, 2, 3, 4 and for an unknown command, so the loop's current path changes
\* only in a turn whose command is 5, 6, 7 or 8.
C25_OnlyNavigationMoves ==
    /\ (res.op \in {"1", "2", "3", "4", "9", ""} /\ res.raised = "none") =>
          res.out = res.path
    /\ (res.op # "none" /\ res.current_path # res.path) =>
          res.op \in {"5", "6", "7", "8"}

\* the search menu was opened and left, away from the folder the program
\* started in
C25_Witness ==
    /\ res.op = "3"
    /\ res.raised = "none"
    /\ res.path \notin StartDirs
    /\ res.current_path = res.path

\* C26: the loop ends only on command 0 or on a keyboard interrupt; after any
\* other exception raised in a turn the loop goes on, with the current path
\* it had before the turn.
C26_LoopEndsOnlyOnExit ==
    /\ ~res.running => (res.op = "0" \/ res.raised = "KeyboardInterrupt")
    /\ res.raised \notin {"none", "KeyboardInterrupt", "SystemExit"} =>
          (res.running /\ res.current_path = res.path)

\* entering a special folder raised an operating system error that is no
\* PermissionError, and the loop went on
C26_Witness ==
    /\ res.op = "8"
    /\ res.raised = "NotADirectoryError"
    /\ res.running
    /\ res.current_path = res.path

====
